---------------------------- MODULE Spec2Model ----------------------------
(***************************************************************************)
(* A model of facebook/graphy.py: the pagination generator `paginate`, its *)
(* two cursor extractors, the geometric ramp-up policy, the response        *)
(* parser and the driver `process` with `write_file`.                       *)
(*                                                                          *)
(* Python values are modelled as follows.                                   *)
(*   - a str that the code splits or compares (a cursor, a URL) is a        *)
(*     sequence of atoms; the delimiters "?", "&" and "=" are atoms of      *)
(*     their own, every other atom is a delimiter-free piece of text;       *)
(*   - an optional str (a value or None) is a record [some, val];           *)
(*   - a dict is a function whose DOMAIN is its set of keys;                *)
(*   - a dict object that can be aliased lives in one of two heap slots,    *)
(*     "P" (the caller's `parameters`) and "G" (the generator's `params`),  *)
(*     and is referred to by the slot's name;                               *)
(*   - a decoded JSON body that is not an object (Graph answers `false`     *)
(*     for some objects) is the record NotAnObject, whose one key no        *)
(*     object of the model has: calling .get on it raises AttributeError.   *)
(***************************************************************************)
EXTENDS Integers, Sequences, FiniteSets, TLC

(***************************************************************************)
(* Bounds of the model.                                                     *)
(***************************************************************************)
\* requests one pagination run may issue before the model stops following it
MaxPages == 3
\* longest credential sequence a caller supplies
MaxTokens == 2
\* largest start value and ceiling tried for the ramp-up policy on its own
MaxRamp == 6
\* applications of the ramp-up policy followed on its own
MaxRampSteps == 4
\* longest `next` URL, in atoms, of which every one is tried on an extractor
MaxUrlLen == 4

(***************************************************************************)
(* Python values.                                                           *)
(***************************************************************************)
None == [some |-> FALSE, val |-> <<>>]

Some(s) == [some |-> TRUE, val |-> s]

\* Python truthiness of an optional str: None and '' are falsy
Truthy(c) == c.some /\ c.val # <<>>

\* dict.get(k, default)
Get(m, k, default) == IF k \in DOMAIN m THEN m[k] ELSE default

\* m[k] = v
Put(m, k, v) == [x \in (DOMAIN m) \cup {k} |-> IF x = k THEN v ELSE m[x]]

EmptyDict == [x \in {} |-> 0]

NotAnObject == [literal |-> "false"]

\* whether a decoded body has a .get method
IsDict(c) == "literal" \notin DOMAIN c

Min(a, b) == IF a <= b THEN a ELSE b


(***************************************************************************)
(* str.split, on strings that are sequences of atoms.                       *)
(***************************************************************************)
\* index of the first occurrence of atom ch in s, 0 when there is none
IndexOf(s, ch) ==
    IF \E i \in 1..Len(s) : s[i] = ch
    THEN CHOOSE i \in 1..Len(s) : s[i] = ch /\ \A j \in 1..(i-1) : s[j] # ch
    ELSE 0

\* s.split(ch, 1)
SplitFirst(s, ch) ==
    LET i == IndexOf(s, ch)
    IN  IF i = 0 THEN <<s>> ELSE <<SubSeq(s, 1, i-1), SubSeq(s, i+1, Len(s))>>

RECURSIVE SplitAll(_, _)
\* s.split(ch)
SplitAll(s, ch) ==
    LET i == IndexOf(s, ch)
    IN  IF i = 0 THEN <<s>>
        ELSE <<SubSeq(s, 1, i-1)>> \o SplitAll(SubSeq(s, i+1, Len(s)), ch)

(***************************************************************************)
(* The cursor extractors.  An extractor's outcome is [raised, value]:      *)
(* dict() raises ValueError on a query-string piece that has no "=", and    *)
(* c.get raises AttributeError on a body that is not an object.             *)
(***************************************************************************)
\* dict(pairs) for the pairs p.split('=', 1) of extract_query: a later pair
\* overwrites an earlier one with the same key
DictOfPairs(pairs) ==
    LET keys == {pairs[i][1] : i \in 1..Len(pairs)}
        last(k) == CHOOSE i \in 1..Len(pairs) :
                       /\ pairs[i][1] = k
                       /\ \A j \in (i+1)..Len(pairs) : pairs[j][1] # k
    IN  [k \in keys |-> pairs[last(k)][2]]

extract_query(s) ==
    LET parts == SplitFirst(s, "?")
    IN  IF Len(parts) = 2
        THEN LET pieces == SplitAll(parts[2], "&")
                 pairs == [i \in 1..Len(pieces) |-> SplitFirst(pieces[i], "=")]
             IN  IF \E i \in 1..Len(pairs) : Len(pairs[i]) # 2
                 THEN [raised |-> TRUE, value |-> EmptyDict]
                 ELSE [raised |-> FALSE, value |-> DictOfPairs(pairs)]
        ELSE [raised |-> FALSE, value |-> EmptyDict]

\* mutant: c['paging']['cursors'].get('after'), KeyError on a missing level
extract_after_indexed(c) ==
    IF ~IsDict(c) \/ "paging" \notin DOMAIN c \/ "cursors" \notin DOMAIN c["paging"]
    THEN [raised |-> TRUE, value |-> None]
    ELSE [raised |-> FALSE,
          value |-> IF "after" \in DOMAIN c["paging"]["cursors"]
                    THEN Some(c["paging"]["cursors"]["after"]) ELSE None]

\* c.get('paging', {}).get('cursors', {}).get('after')
extract_after(c) ==
    LET cursors == Get(Get(c, "paging", EmptyDict), "cursors", EmptyDict)
    IN  IF ~IsDict(c) THEN [raised |-> TRUE, value |-> None]
        ELSE [raised |-> FALSE,
              value |-> IF "after" \in DOMAIN cursors THEN Some(cursors["after"]) ELSE None]

\* extract_query(c.get('paging', {}).get('next', '')).get('until')
extract_until(c) ==
    LET next == Get(Get(c, "paging", EmptyDict), "next", <<>>)
        q == extract_query(next)
    IN  IF ~IsDict(c) \/ q.raised THEN [raised |-> TRUE, value |-> None]
        ELSE [raised |-> FALSE,
              value |-> IF <<"until">> \in DOMAIN q.value
                        THEN Some(q.value[<<"until">>]) ELSE None]

\* the extractor that paginate_cursors / paginate_dates pairs with a cursor key
cursor_extractor(key, c) == IF key = "after" THEN extract_after(c) ELSE extract_until(c)

(***************************************************************************)
(* The ramp-up policy.  ramp_up is a closure: the identity default of      *)
(* paginate, or geometric_ramp_up(multiplier, ceiling).                     *)
(***************************************************************************)
\* mutant: the ceiling is not applied
geometric_ramp_up_unclamped(multiplier, ceiling, x) == x * multiplier

geometric_ramp_up(multiplier, ceiling, x) == Min(ceiling, x * multiplier)

Identity == [kind |-> "identity", multiplier |-> 1, ceiling |-> 0]

Geometric(m, c) == [kind |-> "geometric", multiplier |-> m, ceiling |-> c]

Apply(ramp, x) ==
    IF ramp.kind = "identity" THEN x
    ELSE geometric_ramp_up(ramp.multiplier, ramp.ceiling, x)

(***************************************************************************)
(* parse_response: the decoded body, or {error: text} when r.json() raises. *)
(***************************************************************************)
\* mutant: a fixed message instead of the raw response text
parse_response_generic(r) ==
    IF r.decodable THEN r.body ELSE [error |-> <<"decode-error">>]

parse_response(r) == IF r.decodable THEN r.body ELSE [error |-> r.text]


(***************************************************************************)
(* The environment: what the API may answer, and what a caller may pass.    *)
(***************************************************************************)
Credentials == {"A", "B"}

\* every credential sequence of at most MaxTokens entries, duplicates included
TokenSeqs == UNION {[1..n -> Credentials] : n \in 0..MaxTokens}


Cur1 == <<"c1">>

Cur2 == <<"c2">>

\* bodies of the cursor-paginated endpoints (likes, comments)
AfterBodies ==
    {[error |-> <<"api-error">>],
     NotAnObject,
     [data |-> <<>>],
     [data |-> <<"x", "y">>],
     [data |-> <<"x">>, paging |-> EmptyDict],
     [data |-> <<>>, paging |-> [cursors |-> [after |-> Cur1]]]}
    \cup {[data |-> <<"x">>, paging |-> [cursors |-> [after |-> c]]] : c \in {<<>>, Cur1, Cur2}}

\* the `next` URLs the date-paginated endpoints (feed, posts) may return
NextUrls ==
    {<<>>,
     <<"u">>,
     <<"u", "?", "limit">>,
     <<"u", "?", "until", "=">>,
     <<"u", "?", "until", "=", "c1">>,
     <<"u", "?", "until", "=", "c2", "&", "limit", "=", "25">>,
     <<"u", "?", "until", "=", "c2", "&", "until", "=", "c1">>}

UntilBodies ==
    {[error |-> <<"api-error">>],
     NotAnObject,
     [data |-> <<>>],
     [data |-> <<"x", "y">>],
     [data |-> <<>>, paging |-> [next |-> <<"u", "?", "until", "=", "c1">>]],
     [data |-> <<>>, paging |-> [next |-> <<"u", "?", "limit">>]]}
    \cup {[data |-> <<"x">>, paging |-> [next |-> u]] : u \in NextUrls}

\* the responses requests.get may return to a request of a paginator, with
\* the status codes in sts
Responses(key, sts) ==
    {[decodable |-> TRUE, body |-> b, text |-> <<>>, status |-> st] :
        b \in (IF key = "after" THEN AfterBodies ELSE UntilBodies), st \in sts}
    \cup {[decodable |-> FALSE, body |-> EmptyDict, text |-> <<"rate", "limited">>,
           status |-> st] : st \in sts}

(***************************************************************************)
(* State.                                                                   *)
(***************************************************************************)
VARIABLES
    \* --- the arguments of the paginate call (fixed during a run)
    endpoint,       \* the URL
    parameters,     \* contents of the caller's dict (heap slot "P")
    tokens,         \* the caller's credential sequence
    cursor_key,     \* "after" or "until"; selects the extractor too
    ramp_up,        \* the ramp-up closure
    \* --- the generator's frame
    pc,             \* "none", "created", "requesting", "yielded", "extracting", "done", "raised"
    paramsRef,      \* the heap slot `params` refers to
    params,         \* contents of the dict made by dict(parameters) (heap slot "G")
    queue,          \* the deque
    content,        \* parse_response(response)
    error,          \* the exception that ended the generator, "" when none
    \* --- what has been observed of the current run
    requests,       \* the GETs issued: [endpoint, params], params as sent
    responses,      \* the raw response to each request
    envelopes,      \* the dicts yielded: [content, status, endpoint, parameters]
    ramped,         \* the number of calls of ramp_up
    \* --- the driver (process)
    opts,           \* the parsed command line
    dpc,            \* "off", "objects", "pages", "aborted", "returned"
    objIdx,         \* index in Objects of the object being paginated
    i,              \* the page index of enumerate(..., 1)
    count,          \* the running total of the current object
    files,          \* the destination directory: path -> contents
    runs,           \* the number of requests each earlier object's run issued
    \* --- the ramp-up policy on its own
    x,              \* [start, cur, steps, multiplier, ceiling]
    \* --- an extractor on its own
    ex,             \* [kind, body, applied, raised, value]
    \* --- an earlier run of the same call, whose response bodies are replayed
    first           \* [pc, requests, responses], <<>> when there is none

genVars == <<pc, paramsRef, params, queue, content, error>>

argVars == <<endpoint, cursor_key, ramp_up, tokens>>

obsVars == <<requests, responses, envelopes, ramped>>

driverVars == <<opts, dpc, objIdx, i, count, files, runs>>

otherVars == <<x, ex, first>>

vars == <<argVars, parameters, genVars, obsVars, driverVars, otherVars>>


(***************************************************************************)
(* paginate.  The generator runs from one suspension point to the next;    *)
(* pc = "requesting" is the top of the while loop (line 103) and            *)
(* pc = "extracting" the point just after the yield (line 109).             *)
(***************************************************************************)
\* the dict a heap slot holds
Deref(ref) == IF ref = "P" THEN parameters ELSE params

\* assignment through `params`
StoreParams(v) ==
    IF paramsRef = "P"
    THEN parameters' = v /\ params' = params
    ELSE params' = v /\ parameters' = parameters

\* mutant: params = parameters, the caller's own dict
DictAlias == "P"

\* dict(parameters): a new dict, in the generator's own heap slot
DictCopy == "G"

\* collections.deque(tokens): a new queue holding the caller's credentials
Deque(toks) == toks

\* mutant: queue.appendleft(token)
RequeueFront(q, token) == <<token>> \o q

\* mutant: the credential is not put back
RequeueDropped(q, token) == q

\* queue.append(token)
Requeue(q, token) == Append(q, token)

\* mutant: the stagnation guard is missing
ContinuationTestNoGuard(data, cursor, stored) == data # <<>> /\ Truthy(cursor)

\* line 111: data and cursor and cursor != params.get(cursor_key)
\* mutant: the run goes on only after a page answered with status 200
ContinuationTestOk(data, cursor, stored) ==
    /\ data # <<>>
    /\ Truthy(cursor)
    /\ cursor # stored
    /\ envelopes[Len(envelopes)].status = 200

\* mutant: the guard also stops on a cursor seen on any earlier page
ContinuationTestSeen(data, cursor, stored) ==
    /\ data # <<>>
    /\ Truthy(cursor)
    /\ cursor # stored
    /\ \A k \in 1..(Len(envelopes) - 1) :
           cursor # cursor_extractor(cursor_key, envelopes[k].content).value

ContinuationTest(data, cursor, stored) ==
    data # <<>> /\ Truthy(cursor) /\ cursor # stored

\* the status codes the API answers with: process never reads the status, so
\* under the driver one code stands for all
StatusesTried == IF dpc = "off" THEN {200, 400} ELSE {200}

\* the answers requests.get may give to the request about to be made: any
\* response, and in a run that repeats an earlier one the body that run got
\* at this position, under any status
Answers ==
    {r \in Responses(cursor_key, StatusesTried) :
        \/ first = <<>>
        \/ Len(requests) >= Len(first.responses)
        \/ /\ r.decodable = first.responses[Len(requests) + 1].decodable
           /\ r.body = first.responses[Len(requests) + 1].body
           /\ r.text = first.responses[Len(requests) + 1].text}

\* mutant: the cursor is stored under a fixed name, params['after'] = cursor
StoreCursorAfter(p, key, cursor) == Put(p, "after", cursor)

\* line 113: params[cursor_key] = cursor
StoreCursor(p, key, cursor) == Put(p, key, cursor)

\* mutant: the policy is applied whether or not the caller set a limit
RampLimitAlways(p) ==
    Put(p, "limit", Apply(ramp_up, IF "limit" \in DOMAIN p THEN p["limit"] ELSE 1))

\* lines 114-115: if 'limit' in params: params['limit'] = ramp_up(params['limit'])
RampLimit(p) ==
    IF "limit" \in DOMAIN p THEN Put(p, "limit", Apply(ramp_up, p["limit"])) ELSE p

\* the first next(): lines 100-101
Begin ==
    /\ pc = "created"
    /\ paramsRef' = DictCopy
    /\ params' = IF DictCopy = "G" THEN parameters ELSE params
    /\ queue' = Deque(tokens)
    /\ pc' = "requesting"
    /\ UNCHANGED <<parameters, content, error, argVars, obsVars, driverVars, otherVars>>

\* mutant: the generator does not wait at the yield for the consumer
YieldPointSkipped == "extracting"

\* line 107: the generator is suspended at the yield until the next next()
YieldPoint == "yielded"

\* lines 103-107: pop a credential, GET, parse, yield
Request ==
    /\ pc = "requesting"
    /\ queue # <<>>
    /\ Len(requests) < MaxPages
    /\ \E r \in Answers :
         LET sent == Put(Deref(paramsRef), "access_token", Head(queue))
             c == parse_response(r)
         IN  /\ StoreParams(sent)
             /\ queue' = Tail(queue)
             /\ content' = c
             /\ requests' = Append(requests, [endpoint |-> endpoint, params |-> sent])
             /\ responses' = Append(responses, r)
             /\ envelopes' = Append(envelopes,
                    [content |-> c, status |-> r.status,
                     endpoint |-> endpoint, parameters |-> paramsRef])
    /\ pc' = YieldPoint
    /\ UNCHANGED <<paramsRef, error, ramped, argVars, driverVars, otherVars>>

\* mutant: the IndexError is swallowed and the generator just ends
PopEmptySwallowed ==
    /\ pc = "requesting"
    /\ queue = <<>>
    /\ pc' = "done"
    /\ UNCHANGED <<parameters, paramsRef, params, queue, content, error, argVars,
                   obsVars, driverVars, otherVars>>

\* line 103 on an empty deque: IndexError leaves the generator
PopEmpty ==
    /\ pc = "requesting"
    /\ queue = <<>>
    /\ pc' = "raised"
    /\ error' = "IndexError"
    /\ UNCHANGED <<parameters, paramsRef, params, queue, content, argVars, obsVars,
                   driverVars, otherVars>>

\* lines 109-115, the test holds: re-enqueue, store the cursor, ramp the limit
Continue ==
    /\ pc = "extracting"
    /\ LET ext == cursor_extractor(cursor_key, content)
           cur == Deref(paramsRef)
       IN  /\ ~ext.raised
           /\ ContinuationTest(Get(content, "data", <<>>), ext.value,
                               Get(cur, cursor_key, None))
           /\ queue' = Requeue(queue, cur["access_token"])
           /\ StoreParams(RampLimit(StoreCursor(cur, cursor_key, ext.value)))
           /\ ramped' = IF "limit" \in DOMAIN cur THEN ramped + 1 ELSE ramped
    /\ pc' = "requesting"
    /\ UNCHANGED <<paramsRef, content, error, argVars, requests, responses, envelopes,
                   driverVars, otherVars>>

\* lines 109-117, the test fails: break
Break ==
    /\ pc = "extracting"
    /\ LET ext == cursor_extractor(cursor_key, content)
       IN  /\ ~ext.raised
           /\ ~ContinuationTest(Get(content, "data", <<>>), ext.value,
                                Get(Deref(paramsRef), cursor_key, None))
    /\ pc' = "done"
    /\ UNCHANGED <<parameters, paramsRef, params, queue, content, error, argVars,
                   obsVars, driverVars, otherVars>>

\* line 109: the extractor raises (ValueError from extract_query's dict(),
\* AttributeError from .get on a body that is not an object)
ExtractorRaises ==
    /\ pc = "extracting"
    /\ cursor_extractor(cursor_key, content).raised
    /\ pc' = "raised"
    /\ error' = IF IsDict(content) THEN "ValueError" ELSE "AttributeError"
    /\ UNCHANGED <<parameters, paramsRef, params, queue, content, argVars, obsVars,
                   driverVars, otherVars>>

Generator == Begin \/ Request \/ PopEmpty \/ Continue \/ Break \/ ExtractorRaises

(***************************************************************************)
(* A caller of paginate that keeps every envelope it is handed and asks    *)
(* for the next page.                                                       *)
(***************************************************************************)
\* '%s/%s/%s' % (opts.url.rstrip('/'), obj, opts.endpoint)
Url(obj, ep) == <<"graph", obj, ep>>

\* next(generator) on a suspended generator
Pull ==
    /\ dpc = "off"
    /\ pc = "yielded"
    /\ pc' = "extracting"
    /\ UNCHANGED <<parameters, paramsRef, params, queue, content, error, argVars,
                   obsVars, driverVars, otherVars>>

BaseParameters == [summary |-> 1]

\* the parameter dicts a caller may pass: with or without a limit, with or
\* without a value under the cursor key
CallerParameters(key) ==
    {BaseParameters, Put(BaseParameters, "limit", 1),
     Put(BaseParameters, key, Some(Cur1)),
     Put(Put(BaseParameters, "limit", 1), key, Some(Cur1))}

NoOpts == [endpoint |-> "", limit |-> 0, limit_factor |-> 0, limit_max |-> 0,
           overwrite |-> FALSE, query_parameters |-> EmptyDict]

NoExtract == [kind |-> "", body |-> EmptyDict, applied |-> FALSE, raised |-> FALSE,
              value |-> None]

NoRamp == [start |-> 0, cur |-> 0, steps |-> 0, multiplier |-> 0, ceiling |-> 0]

Init ==
    /\ cursor_key \in {"after", "until"}
    /\ endpoint = Url("o1", IF cursor_key = "after" THEN "likes" ELSE "posts")
    /\ parameters \in CallerParameters(cursor_key)
    /\ tokens \in TokenSeqs
    /\ ramp_up \in {Identity, Geometric(2, 3)}
    /\ pc = "created"
    /\ paramsRef = "P"
    /\ params = EmptyDict
    /\ queue = <<>>
    /\ content = EmptyDict
    /\ error = ""
    /\ requests = <<>>
    /\ responses = <<>>
    /\ envelopes = <<>>
    /\ ramped = 0
    /\ opts = NoOpts
    /\ dpc = "off"
    /\ objIdx = 0
    /\ i = 0
    /\ count = 0
    /\ files = EmptyDict
    /\ runs = <<>>
    /\ x = NoRamp
    /\ ex = NoExtract
    /\ first = <<>>

Next == Generator \/ Pull

Spec == Init /\ [][Next]_vars


(***************************************************************************)
(* process: the driver.  One generator is alive at a time; the driver acts *)
(* while the generator is suspended, ended or not yet made.                 *)
(***************************************************************************)
Objects == <<"o1", "o2">>

\* default_endpoints: the cursor key of the paginator of an endpoint
PaginatorKey(ep) == IF ep \in {"likes", "comments"} THEN "after" ELSE "until"

default_parameters(ep) ==
    IF ep = "feed" THEN [since |-> "-1day"]
    ELSE IF ep = "posts" THEN [since |-> "-7days"]
    ELSE IF ep = "likes" THEN [summary |-> 1]
    ELSE [summary |-> 1, filter |-> "stream"]

\* dict.update
Update(m, q) ==
    [k \in (DOMAIN m) \cup (DOMAIN q) |-> IF k \in DOMAIN q THEN q[k] ELSE m[k]]

\* lines 57-62: the parameter dict process passes to every paginate call
ProcessParameters(o) ==
    Put(Update(default_parameters(o.endpoint), o.query_parameters), "limit", o.limit)

\* opts.format % fmt with the default format: endpoint, object and page index
Path(ep, obj, n) == <<ep, obj, n>>

\* serialize(entry), kept as the page it was made from
Serialize(obj, n) == <<"page", obj, n>>

\* mutant: the assertion is not made
MayWriteUnchecked(path) == TRUE

\* line 139: assert overwrite or not os.path.exists(filename)
MayWrite(path) == opts.overwrite \/ path \notin DOMAIN files

\* the -q options tried: none, or a value for the paginator's cursor key
QueriesTried(ep) == {EmptyDict, [k \in {PaginatorKey(ep)} |-> Some(Cur1)]}

\* the command lines tried
OptsTried ==
    UNION {{[endpoint |-> ep, limit |-> l, limit_factor |-> 2, limit_max |-> c,
             overwrite |-> ow, query_parameters |-> q] :
                l \in {1, 3}, c \in {2, 4}, ow \in BOOLEAN, q \in QueriesTried(ep)} :
           ep \in {"likes", "posts"}}

\* what the destination directory may hold before the run
ExistingFiles(ep) ==
    {EmptyDict,
     [p \in {Path(ep, "o1", 2)} |-> <<"old">>],
     [p \in {Path(ep, "o2", 1)} |-> <<"old">>]}

DriverInit ==
    /\ opts \in OptsTried
    /\ tokens \in TokenSeqs
    /\ parameters = ProcessParameters(opts)
    /\ cursor_key = PaginatorKey(opts.endpoint)
    /\ ramp_up = Geometric(opts.limit_factor, opts.limit_max)
    /\ files \in ExistingFiles(opts.endpoint)
    /\ endpoint = <<>>
    /\ pc = "none"
    /\ paramsRef = "P"
    /\ params = EmptyDict
    /\ queue = <<>>
    /\ content = EmptyDict
    /\ error = ""
    /\ requests = <<>>
    /\ responses = <<>>
    /\ envelopes = <<>>
    /\ ramped = 0
    /\ dpc = "objects"
    /\ objIdx = 0
    /\ i = 0
    /\ count = 0
    /\ runs = <<>>
    /\ x = NoRamp
    /\ ex = NoExtract
    /\ first = <<>>

\* lines 69-72: the next object; its generator is made, not yet started
NextObject ==
    /\ dpc = "objects"
    /\ objIdx < Len(Objects)
    /\ objIdx' = objIdx + 1
    /\ endpoint' = Url(Objects[objIdx + 1], opts.endpoint)
    /\ count' = 0
    /\ i' = 0
    /\ runs' = IF objIdx = 0 THEN runs ELSE Append(runs, Len(requests))
    /\ pc' = "created"
    /\ paramsRef' = "P"
    /\ params' = EmptyDict
    /\ queue' = <<>>
    /\ content' = EmptyDict
    /\ requests' = <<>>
    /\ responses' = <<>>
    /\ envelopes' = <<>>
    /\ ramped' = 0
    /\ dpc' = "pages"
    /\ UNCHANGED <<parameters, tokens, cursor_key, ramp_up, error, opts, files, otherVars>>

\* mutant: one is added for each page, whatever its data
PageSizeOne(c) == 1

\* line 75: len(entry['content'].get('data', []))
PageSize(c) == Len(Get(c, "data", <<>>))

\* lines 73-76 and the next(): write the page, add to the count, ask for more
WritePage ==
    /\ dpc = "pages"
    /\ pc = "yielded"
    /\ MayWrite(Path(opts.endpoint, Objects[objIdx], i + 1))
    /\ IsDict(envelopes[Len(envelopes)].content)
    /\ i' = i + 1
    /\ files' = Put(files, Path(opts.endpoint, Objects[objIdx], i + 1),
                    Serialize(Objects[objIdx], i + 1))
    /\ count' = count + PageSize(envelopes[Len(envelopes)].content)
    /\ pc' = "extracting"
    /\ UNCHANGED <<parameters, paramsRef, params, queue, content, error, argVars,
                   obsVars, opts, dpc, objIdx, runs, otherVars>>

\* line 139 fails: AssertionError leaves process
AbortOnExisting ==
    /\ dpc = "pages"
    /\ pc = "yielded"
    /\ ~MayWrite(Path(opts.endpoint, Objects[objIdx], i + 1))
    /\ i' = i + 1
    /\ dpc' = "aborted"
    /\ error' = "AssertionError"
    /\ UNCHANGED <<parameters, pc, paramsRef, params, queue, content, argVars,
                   obsVars, opts, objIdx, count, files, runs, otherVars>>

\* line 75 on a body that is not an object: the page is written, then
\* AttributeError leaves process
CountRaises ==
    /\ dpc = "pages"
    /\ pc = "yielded"
    /\ MayWrite(Path(opts.endpoint, Objects[objIdx], i + 1))
    /\ ~IsDict(envelopes[Len(envelopes)].content)
    /\ i' = i + 1
    /\ files' = Put(files, Path(opts.endpoint, Objects[objIdx], i + 1),
                    Serialize(Objects[objIdx], i + 1))
    /\ dpc' = "aborted"
    /\ error' = "AttributeError"
    /\ UNCHANGED <<parameters, pc, paramsRef, params, queue, content, argVars,
                   obsVars, opts, objIdx, count, runs, otherVars>>

\* line 72 ends on StopIteration; line 77; back to the loop over objects
EndPages ==
    /\ dpc = "pages"
    /\ pc = "done"
    /\ dpc' = "objects"
    /\ UNCHANGED <<parameters, genVars, argVars, obsVars, opts, objIdx, i, count,
                   files, runs, otherVars>>

\* an exception of the generator leaves process through line 72
Propagate ==
    /\ dpc = "pages"
    /\ pc = "raised"
    /\ dpc' = "aborted"
    /\ UNCHANGED <<parameters, genVars, argVars, obsVars, opts, objIdx, i, count,
                   files, runs, otherVars>>

\* line 79: return 0
Finish ==
    /\ dpc = "objects"
    /\ objIdx = Len(Objects)
    /\ dpc' = "returned"
    /\ UNCHANGED <<parameters, genVars, argVars, obsVars, opts, objIdx, i, count,
                   files, runs, otherVars>>

Driver ==
    \/ NextObject \/ WritePage \/ AbortOnExisting \/ CountRaises
    \/ EndPages \/ Propagate \/ Finish

DriverNext == Generator \/ Driver

DriverSpec == DriverInit /\ [][DriverNext]_vars

(***************************************************************************)
(* The ramp-up policy on its own: a closure geometric_ramp_up(m, c) is     *)
(* applied again and again to its own result.                               *)
(***************************************************************************)
\* the closures and start values tried, and the spec's example (25, 2, 3000)
RampsTried ==
    {[start |-> s, cur |-> s, steps |-> 0, multiplier |-> m, ceiling |-> c] :
        s \in -1..MaxRamp, m \in 0..3, c \in 0..MaxRamp}
    \cup {[start |-> 25, cur |-> 25, steps |-> 0, multiplier |-> 2, ceiling |-> 3000]}

RampInit ==
    /\ x \in RampsTried
    /\ ex = NoExtract
    /\ first = <<>>
    /\ endpoint = <<>>
    /\ cursor_key = "after"
    /\ parameters = EmptyDict
    /\ tokens = <<>>
    /\ ramp_up = Geometric(x.multiplier, x.ceiling)
    /\ pc = "none"
    /\ paramsRef = "P"
    /\ params = EmptyDict
    /\ queue = <<>>
    /\ content = EmptyDict
    /\ error = ""
    /\ requests = <<>>
    /\ responses = <<>>
    /\ envelopes = <<>>
    /\ ramped = 0
    /\ opts = NoOpts
    /\ dpc = "off"
    /\ objIdx = 0
    /\ i = 0
    /\ count = 0
    /\ files = EmptyDict
    /\ runs = <<>>

\* ramp_up(x)
RampStep ==
    /\ x.steps < MaxRampSteps
    /\ x' = [x EXCEPT !.cur = Apply(ramp_up, x.cur), !.steps = x.steps + 1]
    /\ UNCHANGED <<argVars, parameters, genVars, obsVars, driverVars, ex, first>>

RampSpec == RampInit /\ [][RampStep]_vars

(***************************************************************************)
(* Properties of paginate, under Spec.                                      *)
(***************************************************************************)
LastPage == envelopes[Len(envelopes)]

LastSent == requests[Len(requests)].params

\* the page just yielded has non-empty data, the extractor returned a cursor
\* (a non-empty value), and that cursor differs from the cursor-key value
\* sent in the request just made
MorePagesExpected ==
    LET ext == cursor_extractor(cursor_key, LastPage.content)
    IN  /\ ~ext.raised
        /\ Get(LastPage.content, "data", <<>>) # <<>>
        /\ Truthy(ext.value)
        /\ ext.value # Get(LastSent, cursor_key, None)

\* C1: once the consumer asks for the page after a yielded one, the engine
\* goes on to exactly one more request if and only if the yielded page has
\* non-empty data and a cursor that differs from the cursor-key value of the
\* request just made; otherwise the run ends there.  No request is issued
\* while the generator is suspended or after it has ended.
C1_OneMoreRequestIff ==
    [][/\ pc = "extracting" =>
            /\ requests' = requests
            /\ IF MorePagesExpected THEN pc' = "requesting"
               ELSE pc' \in {"done", "raised"}
       /\ (pc = "requesting" /\ requests # <<>>) =>
            /\ Len(requests') = Len(requests) + 1
            /\ Len(envelopes') = Len(envelopes) + 1
            /\ pc' = "yielded"
       /\ pc \in {"yielded", "done", "raised"} => requests' = requests
       /\ pc \in {"done", "raised"} => pc' = pc]_vars

\* a run that continued after page 1 and was stopped after page 2 by the
\* stagnation guard, page 2 holding data and a cursor
C1_Witness ==
    /\ pc = "done"
    /\ Len(requests) = 2
    /\ Get(LastPage.content, "data", <<>>) # <<>>
    /\ Truthy(cursor_extractor(cursor_key, LastPage.content).value)

\* C2: the parameters of every envelope yielded so far are still the
\* parameters sent in that envelope's request.
C2_EnvelopeIsSnapshot ==
    \A k \in 1..Len(envelopes) :
        Deref(envelopes[k].parameters) = requests[k].params

\* C3: the k-th request of a run carries credential t[((k-1) mod n) + 1].
C3_RoundRobin ==
    \A k \in 1..Len(requests) :
        requests[k].params["access_token"] = tokens[((k - 1) % Len(tokens)) + 1]

\* three requests made with two different credentials
C3_Witness ==
    /\ Len(requests) = 3
    /\ Len(tokens) = 2
    /\ tokens[1] # tokens[2]

\* C4: seeded with at least one credential, the queue is never empty at the
\* top of the loop, and no pop ever fails.
C4_QueueNeverEmpty ==
    Len(tokens) >= 1 =>
        /\ pc = "requesting" => queue # <<>>
        /\ error # "IndexError"

\* the third request of a run with a single credential is about to be made
C4_Witness ==
    /\ pc = "requesting"
    /\ Len(tokens) = 1
    /\ Len(requests) = 2

\* C5: with no credentials the first pop raises IndexError: nothing was
\* requested, nothing was yielded, and the generator takes no further step.
C5_EmptyCredentialsFatal ==
    Len(tokens) = 0 =>
        /\ requests = <<>>
        /\ envelopes = <<>>
        /\ pc \in {"created", "requesting", "raised"}
        /\ pc = "requesting" => (ENABLED PopEmpty /\ ~ENABLED Request)
        /\ pc = "raised" => (error = "IndexError" /\ ~ENABLED Next)

C5_Witness == Len(tokens) = 0 /\ pc = "raised"

\* C6: an undecodable response is yielded as {error: text} with its real
\* status, it is the last request of the run, and the run ends normally.
C6_DecodeFailureYielded ==
    /\ \A k \in 1..Len(responses) :
         ~responses[k].decodable =>
            /\ Len(envelopes) >= k
            /\ envelopes[k].content = [error |-> responses[k].text]
            /\ envelopes[k].status = responses[k].status
            /\ k = Len(requests)
            /\ Len(envelopes) = Len(requests)
            /\ pc \in {"yielded", "extracting", "done"}
            /\ error = ""
            /\ pc = "extracting" => (ENABLED Break /\ ~ENABLED Continue)

\* a second page that could not be decoded, with a non-2xx status, has ended
\* the run
C6_Witness ==
    /\ pc = "done"
    /\ Len(responses) = 2
    /\ ~responses[2].decodable
    /\ responses[2].status = 400


(***************************************************************************)
(* Properties of the driver, under DriverSpec.                              *)
(***************************************************************************)
\* the path process is about to write the yielded page to
PagePath == Path(opts.endpoint, Objects[objIdx], i + 1)

\* C7: without --overwrite no file that exists is ever changed; a yielded
\* page whose path exists aborts the run with its file untouched; after the
\* abort nothing is written or requested.
C7_NoOverwrite ==
    [][/\ ~opts.overwrite =>
            \A p \in DOMAIN files : p \in DOMAIN files' /\ files'[p] = files[p]
       /\ (dpc = "pages" /\ pc = "yielded" /\ ~opts.overwrite /\ PagePath \in DOMAIN files) =>
            /\ dpc' = "aborted"
            /\ files' = files
            /\ requests' = requests
       /\ dpc = "aborted" => (dpc' = "aborted" /\ files' = files /\ requests' = requests)]_vars

\* the run was aborted at page 2 of the first object, whose file is as it was
C7_Witness ==
    /\ dpc = "aborted"
    /\ error = "AssertionError"
    /\ objIdx = 1
    /\ i = 2
    /\ files[Path(opts.endpoint, "o1", 2)] = <<"old">>
    /\ Path(opts.endpoint, "o2", 1) \notin DOMAIN files

\* C8: no request carries a limit above --limit-max.
C8_LimitNeverAboveMax ==
    \A k \in 1..Len(requests) : requests[k].params["limit"] <= opts.limit_max

\* C10: the dict process passes to paginate is never modified, and the
\* first request of every object's run carries exactly the configured
\* parameters and the first credential.
C10_RunsShareNothing ==
    /\ parameters = ProcessParameters(opts)
    /\ requests # <<>> =>
         requests[1].params = Put(ProcessParameters(opts), "access_token", tokens[1])

\* the second object's first request, after a first run of three cycles with
\* two different credentials
C10_Witness ==
    /\ objIdx = 2
    /\ Len(requests) = 1
    /\ runs = <<3>>
    /\ Len(tokens) = 2
    /\ tokens[1] # tokens[2]

(***************************************************************************)
(* Properties of the ramp-up policy, under RampSpec.                        *)
(***************************************************************************)
RECURSIVE Pow(_, _)
Pow(b, n) == IF n = 0 THEN 1 ELSE b * Pow(b, n - 1)

\* multiplier >= 2 and a positive start value not above the ceiling
RampPrecondition ==
    x.multiplier >= 2 /\ 0 < x.start /\ x.start <= x.ceiling

\* C9: every application returns the smaller of the ceiling and
\* current * multiplier; for multiplier >= 2 and 0 < start <= ceiling the
\* values never decrease, never exceed the ceiling, equal
\* min(ceiling, start * multiplier^k) after k applications (so the ceiling
\* is reached once multiplier^k >= ceiling) and stay at the ceiling.
C9_GeometricRamp ==
    /\ [](RampPrecondition =>
            /\ x.cur <= x.ceiling
            /\ x.cur >= x.start
            /\ x.cur = Min(x.ceiling, x.start * Pow(x.multiplier, x.steps))
            /\ Pow(x.multiplier, x.steps) >= x.ceiling => x.cur = x.ceiling)
    /\ [][/\ x'.cur <= x.ceiling
          /\ x'.cur <= x.cur * x.multiplier
          /\ x'.cur \in {x.ceiling, x.cur * x.multiplier}
          /\ RampPrecondition =>
                /\ x'.cur >= x.cur
                /\ x.cur = x.ceiling => x'.cur = x.ceiling
          /\ (x.start = 25 /\ x.steps = 0) => x'.cur = 50]_vars

\* from 1 with multiplier 2 and ceiling 6: 1, 2, 4, 6, 6
C9_Witness ==
    /\ x.start = 1
    /\ x.multiplier = 2
    /\ x.ceiling = 6
    /\ x.steps = 4
    /\ x.cur = 6


(***************************************************************************)
(* The extractors on their own: one is applied to one decoded body.         *)
(***************************************************************************)
Atoms == {"u", "?", "&", "=", "until", "c1"}

\* every URL of at most MaxUrlLen atoms, and the longer ones of NextUrls plus
\* three with `until` in second place, "=" in a value and "?" in a value
UrlsTried ==
    UNION {[1..n -> Atoms] : n \in 0..MaxUrlLen}
    \cup NextUrls
    \cup {<<"u", "?", "limit", "=", "25", "&", "until", "=", "c1">>,
          <<"u", "?", "until", "=", "c1", "=", "c2">>,
          <<"u", "?", "until", "=", "c1", "?", "c2">>}

\* bodies with and without each level of paging.cursors.after
CursorBodiesTried ==
    {EmptyDict,
     NotAnObject,
     [data |-> <<"x">>],
     [paging |-> EmptyDict],
     [paging |-> [next |-> <<"u", "?", "after", "=", "c1">>]],
     [paging |-> [cursors |-> EmptyDict]],
     [paging |-> [cursors |-> [before |-> Cur1]]],
     [paging |-> [cursors |-> [before |-> Cur1, after |-> Cur2]]],
     [after |-> Cur1],
     [cursors |-> [after |-> Cur1]],
     [paging |-> [after |-> Cur1]]}
    \cup {[data |-> <<"x">>, paging |-> [cursors |-> [after |-> c]]] :
            c \in {<<>>, Cur1, Cur2, <<"c1", "=", "c2">>}}

BodiesTried ==
    CursorBodiesTried
    \cup {[data |-> <<"x">>, paging |-> [next |-> u]] : u \in UrlsTried}

ExtractInit ==
    /\ ex \in {[kind |-> k, body |-> b, applied |-> FALSE, raised |-> FALSE,
                value |-> None] : k \in {"after", "until"}, b \in BodiesTried}
    /\ x = NoRamp
    /\ first = <<>>
    /\ endpoint = <<>>
    /\ cursor_key = ex.kind
    /\ parameters = EmptyDict
    /\ tokens = <<>>
    /\ ramp_up = Identity
    /\ pc = "none"
    /\ paramsRef = "P"
    /\ params = EmptyDict
    /\ queue = <<>>
    /\ content = EmptyDict
    /\ error = ""
    /\ requests = <<>>
    /\ responses = <<>>
    /\ envelopes = <<>>
    /\ ramped = 0
    /\ opts = NoOpts
    /\ dpc = "off"
    /\ objIdx = 0
    /\ i = 0
    /\ count = 0
    /\ files = EmptyDict
    /\ runs = <<>>

\* the extractor's outcome, kept
Applied(r) == [ex EXCEPT !.applied = TRUE, !.raised = r.raised, !.value = r.value]

\* extract_after(c)
ApplyAfter ==
    /\ ex.kind = "after"
    /\ ~ex.applied
    /\ ex' = Applied(extract_after(ex.body))
    /\ UNCHANGED <<argVars, parameters, genVars, obsVars, driverVars, x, first>>

\* extract_until(c)
ApplyUntil ==
    /\ ex.kind = "until"
    /\ ~ex.applied
    /\ ex' = Applied(extract_until(ex.body))
    /\ UNCHANGED <<argVars, parameters, genVars, obsVars, driverVars, x, first>>

ExtractNext == ApplyAfter \/ ApplyUntil

ExtractSpec == ExtractInit /\ [][ExtractNext]_vars

(***************************************************************************)
(* Properties of the extractors, under ExtractSpec.                         *)
(***************************************************************************)
\* the `until` parameter of a URL as the claim describes it: None without a
\* query string or without a piece "until=...", else the text after the
\* first "=" of the last such piece
UntilOf(url) ==
    LET parts == SplitFirst(url, "?")
        pieces == SplitAll(parts[2], "&")
        hits == {n \in 1..Len(pieces) :
                    /\ Len(pieces[n]) >= 2
                    /\ pieces[n][1] = "until"
                    /\ pieces[n][2] = "="}
        last == CHOOSE n \in hits : \A m \in hits : m <= n
    IN  IF Len(parts) < 2 \/ hits = {} THEN None
        ELSE Some(SubSeq(pieces[last], 3, Len(pieces[last])))

\* C11: on every decoded body extract_until returns the raw `until` value of
\* the query string of paging.next, the last of duplicates, and None when
\* paging, next, the query string or the `until` parameter is missing.
C11_UntilOfNextUrl ==
    (ex.applied /\ ex.kind = "until" /\ IsDict(ex.body)) =>
        /\ ~ex.raised
        /\ ex.value = IF "paging" \in DOMAIN ex.body /\ "next" \in DOMAIN ex.body["paging"]
                      THEN UntilOf(ex.body["paging"]["next"])
                      ELSE None

\* C13: extract_after returns the value at paging.cursors.after when the
\* three levels are present, and None when one of them is missing.
C13_AfterOfCursors ==
    (ex.applied /\ ex.kind = "after" /\ IsDict(ex.body)) =>
        /\ ~ex.raised
        /\ ex.value = IF /\ "paging" \in DOMAIN ex.body
                         /\ "cursors" \in DOMAIN ex.body["paging"]
                         /\ "after" \in DOMAIN ex.body["paging"]["cursors"]
                      THEN Some(ex.body["paging"]["cursors"]["after"])
                      ELSE None

\* the extractor has answered None on the empty mapping
C13_Witness ==
    /\ ex.applied
    /\ ex.kind = "after"
    /\ ex.body = EmptyDict
    /\ ex.value = None


(***************************************************************************)
(* Further properties of paginate, under Spec.                              *)
(***************************************************************************)
\* the page the generator resumes on is one the engine is to stop at: its
\* data is empty or absent, or its cursor is absent, or its cursor is the
\* value stored under the cursor key
StopPage ==
    /\ IsDict(content)
    /\ \/ Get(content, "data", <<>>) = <<>>
       \/ LET ext == cursor_extractor(cursor_key, content)
          IN  /\ ~ext.raised
              /\ \/ ~Truthy(ext.value)
                 \/ ext.value = Get(Deref(paramsRef), cursor_key, None)

\* C12: resumed after yielding a page with empty or absent data, without a
\* cursor, or with the stored cursor, the generator reaches DONE.
C12_StopPageEndsRun ==
    [][(pc = "extracting" /\ StopPage) => pc' = "done"]_vars

\* the parameters that may differ between two requests of a run
Changing == {"access_token", cursor_key, "limit"}

\* C14: every request of a run goes to the same endpoint URL with the same
\* parameters, name and value, apart from the access token, the cursor-key
\* parameter and limit; the cursor-key parameter of request k+1 is the
\* cursor extracted from page k.
C14_OnlyThreeChange ==
    /\ \A k \in 1..Len(requests) :
         /\ requests[k].endpoint = requests[1].endpoint
         /\ DOMAIN requests[k].params \ Changing = DOMAIN requests[1].params \ Changing
         /\ \A key \in DOMAIN requests[k].params \ Changing :
                requests[k].params[key] = requests[1].params[key]
    /\ \A k \in 1..(Len(requests) - 1) :
         /\ cursor_key \in DOMAIN requests[k + 1].params
         /\ requests[k + 1].params[cursor_key]
                = cursor_extractor(cursor_key, envelopes[k].content).value

\* three requests whose token, cursor and limit each changed
C14_Witness ==
    /\ Len(requests) = 3
    /\ "summary" \in DOMAIN requests[3].params
    /\ requests[3].params["access_token"] # requests[2].params["access_token"]
    /\ requests[3].params[cursor_key] # requests[2].params[cursor_key]
    /\ "limit" \in DOMAIN requests[3].params
    /\ requests[3].params["limit"] # requests[2].params["limit"]

\* the cursor extracted from page k
CursorOf(k) == cursor_extractor(cursor_key, envelopes[k].content).value

\* the value the stagnation guard compares the new cursor against
Stored == Get(Deref(paramsRef), cursor_key, None)

\* C15: from the second cycle on, the value stored under the cursor key when
\* the guard runs is the cursor extracted from the page before; resumed on a
\* page with data and a cursor, the run stops exactly when that cursor is
\* the one of the page before, and goes on when it only equals an older one.
C15_GuardComparesPreviousCursor ==
    /\ [](pc \in {"yielded", "extracting"} /\ Len(requests) >= 2
            => Stored = CursorOf(Len(requests) - 1))
    /\ [][(/\ pc = "extracting"
           /\ Len(requests) >= 2
           /\ ~cursor_extractor(cursor_key, content).raised
           /\ Get(content, "data", <<>>) # <<>>
           /\ Truthy(CursorOf(Len(requests))))
          => IF CursorOf(Len(requests)) = CursorOf(Len(requests) - 1)
             THEN pc' = "done" ELSE pc' = "requesting"]_vars

\* the API alternated between two cursors and the run went on after page 3,
\* whose cursor is the one of page 1
C15_Witness ==
    /\ pc = "requesting"
    /\ Len(requests) = 3
    /\ CursorOf(3) = CursorOf(1)
    /\ CursorOf(3) # CursorOf(2)
    /\ Truthy(CursorOf(3))

\* the pages of the run so far that were followed by a continuation
Continuations ==
    IF pc = "requesting" THEN Len(requests)
    ELSE IF requests = <<>> THEN 0 ELSE Len(requests) - 1

\* C16: with a limit among the initial parameters the ramp-up policy has
\* been invoked once for each page that was continued from, the final page
\* not among them, and the limit of request k+1 is the policy applied to the
\* limit of request k; without one the policy is never invoked and no
\* request carries a limit.
C16_RampOncePerContinuation ==
    IF "limit" \in DOMAIN parameters
    THEN /\ ramped = Continuations
         /\ \A k \in 1..Len(requests) : "limit" \in DOMAIN requests[k].params
         /\ \A k \in 1..(Len(requests) - 1) :
                requests[k + 1].params["limit"]
                    = Apply(ramp_up, requests[k].params["limit"])
    ELSE /\ ramped = 0
         /\ \A k \in 1..Len(requests) : "limit" \notin DOMAIN requests[k].params

\* a run of three pages ended on its third page: the limit was ramped twice
C16_Witness ==
    /\ pc = "done"
    /\ Len(requests) = 3
    /\ ramped = 2
    /\ ramp_up # Identity
    /\ requests[3].params["limit"] > requests[2].params["limit"]
    /\ requests[2].params["limit"] > requests[1].params["limit"]

(***************************************************************************)
(* Further properties of process, under DriverSpec.                         *)
(***************************************************************************)
\* C17: every request has its one envelope, in request order, carrying that
\* request's response; request k+1 is issued only once the driver has
\* handled page k and pulled again; once the driver has aborted on page k,
\* request k was the last one issued and none follows.
C17_OneEnvelopePerRequest ==
    /\ [](/\ Len(envelopes) = Len(requests)
          /\ Len(responses) = Len(requests)
          /\ \A k \in 1..Len(requests) :
                /\ envelopes[k].content = parse_response(responses[k])
                /\ envelopes[k].status = responses[k].status
                /\ envelopes[k].endpoint = requests[k].endpoint
          /\ dpc = "pages" => Len(requests) <= i + 1
          /\ (dpc = "pages" /\ pc = "requesting") => Len(requests) = i
          /\ dpc = "aborted" => Len(requests) = i)
    /\ [][/\ Len(requests') <= Len(requests) + 1
          /\ Len(requests') = Len(requests) + 1 =>
                (dpc = "pages" /\ pc = "requesting")
          /\ dpc = "aborted" => requests' = requests]_vars

\* the driver aborted on page 2, whose destination file existed
C17_Witness ==
    /\ dpc = "aborted"
    /\ error = "AssertionError"
    /\ i = 2
    /\ Len(requests) = 2
    /\ pc = "yielded"

\* the sizes of the data lists of pages 1..k of the current run, summed,
\* a page without data adding nothing
RECURSIVE DataTotal(_)
DataTotal(k) ==
    IF k = 0 THEN 0
    ELSE DataTotal(k - 1)
         + (IF "data" \in DOMAIN envelopes[k].content
            THEN Len(envelopes[k].content["data"]) ELSE 0)

\* the pages of the current run the driver is through with
Handled == IF pc = "yielded" THEN Len(envelopes) - 1 ELSE Len(envelopes)

\* C18: while process runs, the page index stands at the number of pages of
\* the current object it has handled, each of them is in the file of its
\* 1-based index, and the running total is the sum of their data sizes;
\* a file is written only for the page just yielded, under that page's
\* position in the run; index and total start again at zero with an object.
C18_IndexAndRunningTotal ==
    /\ []((dpc \in {"pages", "objects", "returned"} /\ objIdx >= 1) =>
            /\ i = Handled
            /\ count = DataTotal(i)
            /\ \A k \in 1..i :
                 /\ Path(opts.endpoint, Objects[objIdx], k) \in DOMAIN files
                 /\ files[Path(opts.endpoint, Objects[objIdx], k)]
                        = Serialize(Objects[objIdx], k))
    /\ [][/\ files' # files =>
                /\ pc = "yielded"
                /\ i' = Len(envelopes)
                /\ \A p \in DOMAIN files' :
                     (p \notin DOMAIN files \/ files'[p] # files[p]) =>
                        p = Path(opts.endpoint, Objects[objIdx], Len(envelopes))
          /\ objIdx' # objIdx => (i' = 0 /\ count' = 0 /\ envelopes' = <<>>)]_vars

\* the second object's run, after a first object of two pages or more: two
\* pages handled, the first with data and the second without
C18_Witness ==
    /\ objIdx = 2
    /\ runs[1] >= 2
    /\ pc = "done"
    /\ i = 2
    /\ "data" \notin DOMAIN envelopes[2].content
    /\ count = Len(envelopes[1].content["data"])
    /\ count > 0

(***************************************************************************)
(* Two runs of paginate, one after the other, on the same arguments and    *)
(* the same response bodies.                                                *)
(***************************************************************************)
\* the first run is over, or has made all the requests followed: paginate is
\* called again with the arguments of the first call
Replay ==
    /\ first = <<>>
    /\ \/ pc \in {"done", "raised"}
       \/ pc = "requesting" /\ Len(requests) = MaxPages
    /\ first' = [pc |-> pc, error |-> error, requests |-> requests,
                 responses |-> responses]
    /\ pc' = "created"
    /\ paramsRef' = "P"
    /\ params' = EmptyDict
    /\ queue' = <<>>
    /\ content' = EmptyDict
    /\ error' = ""
    /\ requests' = <<>>
    /\ responses' = <<>>
    /\ envelopes' = <<>>
    /\ ramped' = 0
    /\ UNCHANGED <<parameters, argVars, driverVars, x, ex>>

\* the calls followed twice: a limit to ramp, with and without a cursor-key
\* value of the caller's, no credential or two
PairInit ==
    /\ Init
    /\ "limit" \in DOMAIN parameters
    /\ tokens \in {<<>>, <<"A", "B">>}
    /\ ramp_up # Identity

PairNext == Generator \/ Pull \/ Replay

PairSpec == PairInit /\ [][PairNext]_vars

\* C19: a second run on the start parameters, credentials and response
\* bodies of a first one, under any status codes, issues the requests of the
\* first run, stops or goes on where the first did, and so yields as many
\* pages.
C19_StatusIndependent ==
    first # <<>> =>
        /\ Len(requests) <= Len(first.requests)
        /\ \A k \in 1..Len(requests) : requests[k] = first.requests[k]
        /\ pc \in {"done", "raised"} =>
              /\ Len(envelopes) = Len(first.requests)
              /\ pc = first.pc
              /\ error = first.error
        /\ (pc = "requesting" /\ queue # <<>> /\ Len(requests) = Len(first.requests)) =>
              first.pc = "requesting"

\* both runs over after two pages: page 1, with data and a new cursor, was
\* answered 200 to the first run and 400 to the second, page 2, without
\* data, 400 to the first and 200 to the second
C19_Witness ==
    /\ first # <<>>
    /\ pc = "done"
    /\ Len(requests) = 2
    /\ first.responses[1].status = 200
    /\ responses[1].status = 400
    /\ first.responses[2].status = 400
    /\ responses[2].status = 200
    /\ "data" \notin DOMAIN envelopes[2].content

=============================================================================
